---------------------------- MODULE Spec2Model ----------------------------
(***************************************************************************)
(* A model of crag-web: the request parser (request.rs, server.rs), the    *)
(* response serializer (response.rs), the server builder and the           *)
(* connection dispatcher running on the worker pool (server.rs).           *)
(*                                                                         *)
(* Strings are sequences of one-character strings, so that splitting,      *)
(* trimming, prefix tests and number parsing are computed as the code      *)
(* computes them.  Every character of the model is one byte (ASCII).        *)
(***************************************************************************)
EXTENDS Integers, Sequences, FiniteSets, TLC

VARIABLES
    input,      \* pure-function specifications: the argument of the call
    output,     \* pure-function specifications: the value the call returned
    builder,    \* ServerBuilder: handlers, error_handler, and whether it is still owned
    last,       \* the last builder call and its result
    effects,    \* what finalize did to the outside world (sockets bound, workers started)
    server,     \* Server: the frozen Handlers and the pool size
    listening,  \* TRUE while Server::run's accept loop is running
    queue,      \* the pool's queue of jobs (connection ids), oldest first
    workers,    \* per worker: 0 when idle, else the connection whose job it runs
    conns,      \* per accepted connection: the stream and the job's position
    nconn       \* number of connections accepted so far

fnVars == <<input, output>>
bldVars == <<builder, last, effects>>
srvVars == <<server, listening, queue, workers, conns, nconn>>
vars == <<input, output, builder, last, effects, server, listening, queue, workers, conns, nconn>>

-----------------------------------------------------------------------------
(* Strings *)

CR == "\r"
LF == "\n"
SP == " "
TAB == "\t"
\* A byte that is not valid UTF-8 on its own (0xFF), as one symbol.
InvalidByte == "\\xFF"

\* char::is_whitespace restricted to the characters of the model
IsWs(c) == c \in {SP, TAB, CR, LF}

Digits == <<"0", "1", "2", "3", "4", "5", "6", "7", "8", "9">>
IsDigit(c) == \E i \in 1..10 : Digits[i] = c
DigitVal(c) == (CHOOSE i \in 1..10 : Digits[i] = c) - 1

\* The value of F(v), with v evaluated once
Bind(v, F(_)) == CHOOSE r \in {F(x) : x \in {v}} : TRUE

\* The maximal runs of non-whitespace characters of s, in order
Runs(s) ==
    LET end(i) == CHOOSE e \in i..Len(s) :
                    /\ \A j \in i..e : ~IsWs(s[j])
                    /\ e = Len(s) \/ IsWs(s[e + 1])
        From(starts) ==
            [k \in 1..Cardinality(starts) |->
                LET Run(i) == SubSeq(s, i, end(i))
                IN  Bind(CHOOSE i \in starts : Cardinality({j \in starts : j < i}) = k - 1,
                         Run)]
    IN  Bind({i \in 1..Len(s) : ~IsWs(s[i]) /\ (i = 1 \/ IsWs(s[i - 1]))}, From)

\* str::split_whitespace
split_whitespace(s) == Bind(s, Runs)

RECURSIVE TrimStart(_)
TrimStart(s) == IF s # <<>> /\ IsWs(Head(s)) THEN TrimStart(Tail(s)) ELSE s

RECURSIVE TrimEnd(_)
TrimEnd(s) ==
    IF s # <<>> /\ IsWs(s[Len(s)]) THEN TrimEnd(SubSeq(s, 1, Len(s) - 1)) ELSE s

\* str::trim
trim(s) == TrimEnd(TrimStart(s))

\* str::starts_with
starts_with(s, p) == Len(s) >= Len(p) /\ SubSeq(s, 1, Len(p)) = p

\* The pieces of s between the delimiters d, empty pieces kept
Pieces(s, d) ==
    LET at == {i \in 1..Len(s) : s[i] = d}
        \* the position of the k-th delimiter; 0 before the first piece, Len(s) + 1
        \* after the last
        delim(k) == IF k = 0 THEN 0
                    ELSE IF k > Cardinality(at) THEN Len(s) + 1
                    ELSE CHOOSE i \in at : Cardinality({j \in at : j < i}) = k - 1
    IN  [k \in 1..(Cardinality(at) + 1) |-> SubSeq(s, delim(k - 1) + 1, delim(k) - 1)]

\* str::split(char)
split(s, d) == LET P(x) == Pieces(x, d) IN Bind(s, P)

RECURSIVE DigitsValue(_, _)
DigitsValue(s, acc) ==
    IF s = <<>> THEN acc ELSE DigitsValue(Tail(s), 10 * acc + DigitVal(Head(s)))

\* str::parse::<usize>: an optional "+", then one or more decimal digits.
\* (The strings of the model are too short to overflow a usize.)
parse_usize(s) ==
    LET d == IF s # <<>> /\ Head(s) = "+" THEN Tail(s) ELSE s
    IN  IF d # <<>> /\ \A i \in 1..Len(d) : IsDigit(d[i])
        THEN [ok |-> TRUE, val |-> DigitsValue(d, 0)]
        ELSE [ok |-> FALSE, val |-> 0]

RECURSIVE ToDec(_)
\* Display for usize: decimal digits, no sign, no padding
ToDec(n) ==
    IF n < 10 THEN <<Digits[n + 1]>> ELSE ToDec(n \div 10) \o <<Digits[(n % 10) + 1]>>

RECURSIVE Concat(_)
Concat(ss) == IF ss = <<>> THEN <<>> ELSE Head(ss) \o Concat(Tail(ss))

RECURSIVE Join(_, _)
Join(ss, sep) ==
    IF ss = <<>> THEN <<>>
    ELSE IF Len(ss) = 1 THEN ss[1] ELSE ss[1] \o sep \o Join(Tail(ss), sep)

-----------------------------------------------------------------------------
(* request.rs *)

\* enum Request { GET(String), POST(String, String) }.  A GET carries no body:
\* its body field is always the empty string.
GET(path) == [tag |-> "GET", path |-> path, body |-> <<>>]
POST(path, body) == [tag |-> "POST", path |-> path, body |-> body]
\* No request (the Err side of a Result<Request>)
NoRequest == [tag |-> "none", path |-> <<>>, body |-> <<>>]

\* anyhow::Result<(Request, usize)>; Request::parse leaves n at 0.  An error is
\* its message: the fixed text err followed by the formatted argument arg.
Ok(req, n) == [ok |-> TRUE, req |-> req, n |-> n, err |-> "", arg |-> <<>>]
ErrFmt(e, arg) == [ok |-> FALSE, req |-> NoRequest, n |-> 0, err |-> e, arg |-> arg]
Err(e) == ErrFmt(e, <<>>)

S_GET == <<"G", "E", "T">>
S_POST == <<"P", "O", "S", "T">>
S_HTTP11 == <<"H", "T", "T", "P", "/", "1", ".", "1">>

\* Request::parse with the method matched before the protocol is checked
parse_method_first(request_line) ==
    LET parts == split_whitespace(request_line) IN
    IF Len(parts) < 1 THEN Err("No method found")
    ELSE IF Len(parts) < 2 THEN Err("No URI found")
    ELSE IF Len(parts) < 3 THEN Err("No protocol found")
    ELSE IF parts[1] \notin {S_GET, S_POST} THEN ErrFmt("Invalid method ", parts[1])
    ELSE IF parts[3] # S_HTTP11 THEN Err("Server can only work with HTTP/1.1")
    ELSE IF Len(parts) > 3 THEN Err("Invalid request line: extra values after parts")
    ELSE IF parts[1] = S_GET THEN Ok(GET(parts[2]), 0)
    ELSE Ok(POST(parts[2], <<>>), 0)

\* Request::parse with the path normalized: a trailing "/" is dropped
parse_normalized(request_line) ==
    LET parts == split_whitespace(request_line)
        path == IF Len(parts) >= 2 /\ parts[2][Len(parts[2])] = "/"
                THEN SubSeq(parts[2], 1, Len(parts[2]) - 1) ELSE parts[2]
    IN
    IF Len(parts) < 1 THEN Err("No method found")
    ELSE IF Len(parts) < 2 THEN Err("No URI found")
    ELSE IF Len(parts) < 3 THEN Err("No protocol found")
    ELSE IF parts[3] # S_HTTP11 THEN Err("Server can only work with HTTP/1.1")
    ELSE IF Len(parts) > 3 THEN Err("Invalid request line: extra values after parts")
    ELSE IF parts[1] = S_GET THEN Ok(GET(path), 0)
    ELSE IF parts[1] = S_POST THEN Ok(POST(path, <<>>), 0)
    ELSE ErrFmt("Invalid method ", parts[1])

\* Request::parse
parse(request_line) ==
    LET Parts(parts) ==
            IF Len(parts) < 1 THEN Err("No method found")
            ELSE IF Len(parts) < 2 THEN Err("No URI found")
            ELSE IF Len(parts) < 3 THEN Err("No protocol found")
            ELSE IF parts[3] # S_HTTP11 THEN Err("Server can only work with HTTP/1.1")
            ELSE IF Len(parts) > 3
                 THEN Err("Invalid request line: extra values after parts")
            ELSE IF parts[1] = S_GET THEN Ok(GET(parts[2]), 0)
            ELSE IF parts[1] = S_POST THEN Ok(POST(parts[2], <<>>), 0)
            ELSE ErrFmt("Invalid method ", parts[1])
    IN  Bind(split_whitespace(request_line), Parts)

\* Request::add_body
add_body(req, body) == IF req.tag = "POST" THEN [req EXCEPT !.body = body] ELSE req

-----------------------------------------------------------------------------
(* server.rs: reading and parsing a request *)

S_CONTENT_LENGTH == <<"C", "o", "n", "t", "e", "n", "t", "-", "L", "e", "n", "g", "t", "h", ":">>

\* The first element of a sequence that satisfies the prefix test (Iterator::find)
RECURSIVE FindContentLength(_)
FindContentLength(lines) ==
    IF lines = <<>> THEN [found |-> FALSE, line |-> <<>>]
    ELSE IF starts_with(Head(lines), S_CONTENT_LENGTH)
         THEN [found |-> TRUE, line |-> Head(lines)]
         ELSE FindContentLength(Tail(lines))

\* .find(..).and_then(|line| line.trim().split(':').nth(1)
\*      .and_then(|value| value.trim().parse::<usize>().ok())).unwrap_or(0)
content_length_of(lines) ==
    LET Value(v) == IF v.ok THEN v.val ELSE 0
        Nth1(pieces) ==
            IF Len(pieces) < 2 THEN 0 ELSE Bind(parse_usize(trim(pieces[2])), Value)
        Found(f) == IF ~f.found THEN 0 ELSE Bind(split(trim(f.line), ":"), Nth1)
    IN  Bind(FindContentLength(lines), Found)

\* parse_request that takes the empty string for a missing request line
parse_request_or_empty(lines) ==
    LET r == parse(IF lines = <<>> THEN <<>> ELSE lines[1]) IN
    IF ~r.ok THEN r
    ELSE IF r.req.tag = "GET" THEN Ok(r.req, 0)
    ELSE Ok(r.req, content_length_of(Tail(lines)))

\* parse_request: Result<(Request, usize)>
parse_request(lines) ==
    IF lines = <<>> THEN Err("No request line found")
    ELSE LET Parsed(r) ==
                IF ~r.ok THEN r
                ELSE IF r.req.tag = "GET" THEN Ok(r.req, 0)
                ELSE Ok(r.req, content_length_of(Tail(lines)))
         IN  Bind(parse(lines[1]), Parsed)

\* A stream as the server sees it: the bytes the client has sent, and whether the
\* client then shut down its sending side (eof) or keeps the connection open and
\* sends nothing more.
Stream(bytes, eof) == [bytes |-> bytes, eof |-> eof]

\* Index of the first LF of bytes at or after pos, 0 when there is none
FindLF(bytes, pos) ==
    IF \E i \in pos..Len(bytes) : bytes[i] = LF
    THEN CHOOSE i \in pos..Len(bytes) :
            bytes[i] = LF /\ \A j \in pos..(i - 1) : bytes[j] # LF
    ELSE 0

\* BufRead::read_line from position pos: the bytes up to and including the next
\* LF, or up to the end of a stream at eof; it waits ("block") when neither is
\* there, and fails when the bytes read are not valid UTF-8.
read_line(stream, pos) ==
    LET nl == FindLF(stream.bytes, pos)
        end == IF nl > 0 THEN nl ELSE Len(stream.bytes)
        line == SubSeq(stream.bytes, pos, end)
    IN  IF nl = 0 /\ ~stream.eof THEN [st |-> "block", line |-> <<>>, pos |-> pos]
        ELSE IF \E i \in 1..Len(line) : line[i] = InvalidByte
             THEN [st |-> "err", line |-> <<>>, pos |-> end + 1]
             ELSE [st |-> "ok", line |-> line, pos |-> end + 1]

\* The loop of read_and_parse_request: read lines until one is "", "\r" or "\r\n".
\* (r is bound to the line read, so that it is read once.)
RECURSIVE ReadHeaderLines(_, _, _)
ReadHeaderLines(stream, pos, lines) ==
    LET Loop(r) ==
            IF r.st # "ok" THEN [st |-> r.st, lines |-> lines, pos |-> r.pos]
            ELSE IF r.line = <<>> \/ r.line = <<CR>> \/ r.line = <<CR, LF>>
                 THEN [st |-> "ok", lines |-> lines, pos |-> r.pos]
                 ELSE ReadHeaderLines(stream, r.pos, Append(lines, r.line))
    IN  Bind(read_line(stream, pos), Loop)

\* Result<Request>
OkReq(req) == [ok |-> TRUE, req |-> req, err |-> "", arg |-> <<>>]
ErrReqFmt(e, arg) == [ok |-> FALSE, req |-> NoRequest, err |-> e, arg |-> arg]
ErrReq(e) == ErrReqFmt(e, <<>>)

\* read_and_parse_request never returns on this stream: a read_line waits for
\* bytes the client never sends
ReadBlocks(stream) == ReadHeaderLines(stream, 1, <<>>).st = "block"

\* read_and_parse_request, for a stream on which it returns
read_and_parse_request(stream) ==
    LET Parsed(r) == IF r.ok THEN OkReq(r.req) ELSE ErrReqFmt(r.err, r.arg)
        Read(rl) ==
            IF rl.st = "err" THEN ErrReq("stream did not contain valid UTF-8")
            ELSE Bind(parse_request(rl.lines), Parsed)
    IN  Bind(ReadHeaderLines(stream, 1, <<>>), Read)

-----------------------------------------------------------------------------
(* response.rs *)

\* enum Response { Ok(String), NotFound(String) }
ResponseOk(body) == [tag |-> "Ok", body |-> body]
ResponseNotFound(msg) == [tag |-> "NotFound", body |-> msg]

CRLF == <<CR, LF>>
HTML_TYPE == <<"C", "o", "n", "t", "e", "n", "t", "-", "T", "y", "p", "e", ":", " ", "t", "e", "x", "t", "/", "h", "t", "m", "l">>
STATUS_LINE_OK == <<"H", "T", "T", "P", "/", "1", ".", "0", " ", "2", "0", "0", " ", "O", "K">>
STATUS_LINE_NOT_FOUND == <<"H", "T", "T", "P", "/", "1", ".", "0", " ", "4", "0", "4", " ", "N", "o", "t", " ", "F", "o", "u", "n", "d">>
\* include_str!("../static/html/404.html"): the embedded page
BODY_404 == <<"<", "h", "1", ">", "4", "0", "4", "<", "/", "h", "1", ">">>
F_CONTENT_TYPE == <<"C", "o", "n", "t", "e", "n", "t", "-", "T", "y", "p", "e", ":", " ">>
F_CONTENT_LENGTH == <<"C", "o", "n", "t", "e", "n", "t", "-", "L", "e", "n", "g", "t", "h", ":", " ">>

\* format!("{status}\r\nContent-Type: {type}\r\nContent-Length: {len}\r\n\r\n{body}")
to_output(status, content_type, body) ==
    status \o CRLF \o F_CONTENT_TYPE \o content_type \o CRLF
        \o F_CONTENT_LENGTH \o ToDec(Len(body)) \o CRLF \o CRLF \o body

\* A serializer that sends the payload of NotFound as the body
to_bytes_payload(value) ==
    IF value.tag = "Ok"
    THEN to_output(STATUS_LINE_OK, HTML_TYPE, value.body)
    ELSE to_output(STATUS_LINE_NOT_FOUND, HTML_TYPE, value.body)

\* impl From<Response> for Vec<u8>
to_bytes(value) ==
    IF value.tag = "Ok"
    THEN to_output(STATUS_LINE_OK, HTML_TYPE, value.body)
    ELSE to_output(STATUS_LINE_NOT_FOUND, HTML_TYPE, BODY_404)

-----------------------------------------------------------------------------
(* handler.rs and the handlers of tests/index.rs *)

S_HELLO_BODY == <<"H", "e", "l", "l", "o", ",", " ", "C", "r", "a", "g", "-", "W", "e", "b", "!">>
S_FOO_BODY == <<"f", "o", "o">>
S_NOT_FOUND == <<"n", "o", "t", " ", "f", "o", "u", "n", "d">>

\* anyhow::Result<Response>
OkResp(resp) == [ok |-> TRUE, resp |-> resp]
ErrResp == [ok |-> FALSE, resp |-> ResponseOk(<<>>)]

\* The handlers a program registers, by name
HandlerNames == {"hello_handler", "foo", "error", "default_error_404_handler"}

\* HandlerTrait::handle: the closure registered under name h, called with request
handle(h, request) ==
    CASE h = "hello_handler" -> OkResp(ResponseOk(S_HELLO_BODY))
      [] h = "foo" -> OkResp(ResponseOk(S_FOO_BODY))
      [] h = "error" -> ErrResp
      [] h = "default_error_404_handler" -> OkResp(ResponseNotFound(S_NOT_FOUND))

-----------------------------------------------------------------------------
(* server.rs: ServerBuilder *)

\* HashMap<Request, Handler>: a function from its keys to handler names.
\* Request derives Eq and Hash, so a key is the whole value: tag, path and body.
EmptyMap == <<>>
insert(m, k, v) == [x \in (DOMAIN m) \cup {k} |-> IF x = k THEN v ELSE m[x]]
contains_key(m, k) == k \in DOMAIN m

\* Server::build(): ServerBuilder { handlers: HashMap::new(), error_handler: None }.
\* owned is FALSE once a call has consumed the builder (every method takes self).
build == [handlers |-> EmptyMap, error_handler |-> "None", owned |-> TRUE]
Dropped == [handlers |-> EmptyMap, error_handler |-> "None", owned |-> FALSE]

\* ServerBuilder::register_handler: returns the builder
register_handler(b, r, handler) == [b EXCEPT !.handlers = insert(b.handlers, r, handler)]

\* register_error_handler without the check: a second handler replaces the first
register_error_handler_replace(b, handler) ==
    [ok |-> TRUE, b |-> [b EXCEPT !.error_handler = handler], err |-> ""]

\* ServerBuilder::register_error_handler: Result<Self>; on Err the builder is gone
register_error_handler(b, handler) ==
    IF b.error_handler # "None"
    THEN [ok |-> FALSE, b |-> Dropped, err |-> "Error handler already registered"]
    ELSE [ok |-> TRUE, b |-> [b EXCEPT !.error_handler = handler], err |-> ""]

\* Server { tcp_listener, pool, handlers: Arc<Handlers> }
NoServer == [built |-> FALSE, valid_handlers |-> EmptyMap, error_handler |-> "None", pool_size |-> 0]
NoEffects == [binds |-> 0, listener_open |-> FALSE, workers_started |-> 0]

\* The addresses finalize is called with: one that resolves and is free, one that
\* is not a socket address (to_socket_addrs fails), one whose to_socket_addrs
\* yields no address, one that resolves and is already in use.
Addrs == {"free", "invalid", "no_address", "in_use"}

\* threadpool::ThreadPool::build(size): fails unless size >= 1, starting no worker
threadpool_build(size) ==
    IF size < 1 THEN [ok |-> FALSE, workers |-> 0] ELSE [ok |-> TRUE, workers |-> size]

\* finalize with the error handler looked for only after the listener is bound
\* and the pool is built
finalize_bind_first(b, addr, pool_size) ==
    IF addr = "invalid"
    THEN [ok |-> FALSE, server |-> NoServer, effects |-> NoEffects,
          err |-> "invalid socket address"]
    ELSE IF addr = "no_address"
    THEN [ok |-> FALSE, server |-> NoServer, effects |-> NoEffects,
          err |-> "Could not resolve address"]
    ELSE IF addr = "in_use"
    THEN [ok |-> FALSE, server |-> NoServer, effects |-> NoEffects, err |-> "bind"]
    ELSE LET pool == threadpool_build(pool_size) IN
         IF ~pool.ok
         THEN [ok |-> FALSE, server |-> NoServer,
               effects |-> [binds |-> 1, listener_open |-> FALSE, workers_started |-> 0],
               err |-> "InvalidPoolSize"]
         ELSE IF b.error_handler = "None"
         THEN [ok |-> FALSE, server |-> NoServer,
               effects |-> [binds |-> 1, listener_open |-> FALSE,
                            workers_started |-> pool.workers],
               err |-> "No handler for 404 errors"]
         ELSE [ok |-> TRUE,
               server |-> [built |-> TRUE, valid_handlers |-> b.handlers,
                           error_handler |-> b.error_handler, pool_size |-> pool_size],
               effects |-> [binds |-> 1, listener_open |-> TRUE,
                            workers_started |-> pool.workers],
               err |-> ""]

\* finalize that does not look at the result of ThreadPool::build
finalize_pool_unchecked(b, addr, pool_size) ==
    IF b.error_handler = "None"
    THEN [ok |-> FALSE, server |-> NoServer, effects |-> NoEffects,
          err |-> "No handler for 404 errors"]
    ELSE IF addr = "invalid"
    THEN [ok |-> FALSE, server |-> NoServer, effects |-> NoEffects,
          err |-> "invalid socket address"]
    ELSE IF addr = "no_address"
    THEN [ok |-> FALSE, server |-> NoServer, effects |-> NoEffects,
          err |-> "Could not resolve address"]
    ELSE IF addr = "in_use"
    THEN [ok |-> FALSE, server |-> NoServer, effects |-> NoEffects, err |-> "bind"]
    ELSE [ok |-> TRUE,
          server |-> [built |-> TRUE, valid_handlers |-> b.handlers,
                      error_handler |-> b.error_handler, pool_size |-> pool_size],
          effects |-> [binds |-> 1, listener_open |-> TRUE,
                       workers_started |-> threadpool_build(pool_size).workers],
          err |-> ""]

\* ServerBuilder::finalize, with what it did to the outside world
finalize(b, addr, pool_size) ==
    IF b.error_handler = "None"
    THEN [ok |-> FALSE, server |-> NoServer, effects |-> NoEffects,
          err |-> "No handler for 404 errors"]
    ELSE IF addr = "invalid"
    THEN [ok |-> FALSE, server |-> NoServer, effects |-> NoEffects,
          err |-> "invalid socket address"]
    ELSE IF addr = "no_address"
    THEN [ok |-> FALSE, server |-> NoServer, effects |-> NoEffects,
          err |-> "Could not resolve address"]
    ELSE IF addr = "in_use"
    THEN [ok |-> FALSE, server |-> NoServer, effects |-> NoEffects, err |-> "bind"]
    ELSE LET pool == threadpool_build(pool_size) IN
         IF ~pool.ok
         THEN \* the bound listener is dropped when finalize returns the error
              [ok |-> FALSE, server |-> NoServer,
               effects |-> [binds |-> 1, listener_open |-> FALSE, workers_started |-> 0],
               err |-> "InvalidPoolSize"]
         ELSE [ok |-> TRUE,
               server |-> [built |-> TRUE, valid_handlers |-> b.handlers,
                           error_handler |-> b.error_handler, pool_size |-> pool_size],
               effects |-> [binds |-> 1, listener_open |-> TRUE,
                            workers_started |-> pool.workers],
               err |-> ""]

\* Paths and keys programs register handlers under
P_HELLO == <<"/", "h", "e", "l", "l", "o">>
P_ERROR == <<"/", "e", "r", "r", "o", "r">>
P_FOO == <<"/", "f", "o", "o">>
P_BAD == <<"/", "b", "a", "d">>
P_X == <<"/", "x">>
P_Y == <<"/", "y">>

MaxPool == 2
RegKeys == {GET(P_HELLO), GET(P_X), POST(P_X, <<>>), POST(P_X, <<"a">>)}
RegHandlers == {"hello_handler", "foo", "error"}
ErrHandlers == {"default_error_404_handler", "foo"}
\* last: the call, its result, and what the builder held when it was made
Call(op, b, addr, pool_size, ok, err) ==
    [op |-> op, ok |-> ok, err |-> err, addr |-> addr, pool_size |-> pool_size,
     had_error_handler |-> b.error_handler # "None",
     nhandlers |-> Cardinality(DOMAIN b.handlers)]
NoCall == Call("none", Dropped, "", 0, TRUE, "")

InitIdleFn == input = [kind |-> "none"] /\ output = [returned |-> FALSE]
InitIdleBuilder == builder = Dropped /\ last = NoCall /\ effects = NoEffects
InitIdleServer ==
    /\ server = NoServer /\ listening = FALSE /\ queue = <<>>
    /\ workers = <<>> /\ conns = <<>> /\ nconn = 0

InitBuild ==
    /\ builder = build /\ last = NoCall /\ effects = NoEffects
    /\ InitIdleFn /\ InitIdleServer

RegisterHandler(r, h) ==
    /\ builder.owned
    /\ builder' = register_handler(builder, r, h)
    /\ last' = Call("register_handler", builder, "", 0, TRUE, "")
    /\ UNCHANGED <<effects, fnVars, srvVars>>

RegisterErrorHandler(h) ==
    /\ builder.owned
    /\ LET r == register_error_handler(builder, h) IN
        /\ builder' = r.b
        /\ last' = Call("register_error_handler", builder, "", 0, r.ok, r.err)
    /\ UNCHANGED <<effects, fnVars, srvVars>>

Finalize(addr, pool_size) ==
    /\ builder.owned
    /\ LET r == finalize(builder, addr, pool_size) IN
        /\ builder' = Dropped
        /\ server' = r.server
        /\ effects' = r.effects
        /\ last' = Call("finalize", builder, addr, pool_size, r.ok, r.err)
    /\ UNCHANGED <<fnVars, listening, queue, workers, conns, nconn>>

NextBuild ==
    \/ \E r \in RegKeys, h \in RegHandlers : RegisterHandler(r, h)
    \/ \E h \in ErrHandlers : RegisterErrorHandler(h)
    \/ \E addr \in Addrs, n \in 0..MaxPool : Finalize(addr, n)

SpecBuild == InitBuild /\ [][NextBuild]_vars

-----------------------------------------------------------------------------
(* server.rs: Server::run, handle_connection, and the worker pool *)

S_HTTP10 == <<"H", "T", "T", "P", "/", "1", ".", "0">>
RESPONSE_500 == <<"H", "T", "T", "P", "/", "1", ".", "1", " ", "5", "0", "0", " ", "I", "n", "t", "e", "r", "n", "a", "l", " ", "S", "e", "r", "v", "e", "r", " ", "E", "r", "r", "o", "r", CR, LF, CR, LF>>

\* The program of tests/index.rs, up to finalize
TestIndexBuilder ==
    register_error_handler(
        register_handler(
            register_handler(
                register_handler(build, GET(P_HELLO), "hello_handler"),
                GET(P_ERROR), "error"),
            GET(P_FOO), "foo"),
        "default_error_404_handler").b

\* The same program with a POST route, registered with a body
PostBuilder == register_handler(TestIndexBuilder, POST(P_Y, <<"a">>), "hello_handler")

Programs == {PostBuilder}

MaxConns == 2
\* Bytes a failing write_all gets onto the wire before it fails
PartialWrite == 9

RequestLine(method, path, protocol) == Join(<<method, path, protocol>>, <<SP>>)

\* What clients send.  eof = FALSE: the client keeps its sending side open while
\* it waits for the response, as HTTP clients do.
ClientStreams ==
    { Stream(RequestLine(S_GET, P_HELLO, S_HTTP11) \o CRLF \o CRLF, FALSE),
      Stream(RequestLine(S_GET, P_BAD, S_HTTP11) \o CRLF \o CRLF, FALSE),
      Stream(RequestLine(S_GET, P_ERROR, S_HTTP11) \o CRLF \o CRLF, FALSE),
      Stream(RequestLine(S_GET, P_HELLO, S_HTTP10) \o CRLF \o CRLF, FALSE),
      Stream(RequestLine(S_POST, P_Y, S_HTTP11) \o CRLF
                 \o S_CONTENT_LENGTH \o <<SP, "1">> \o CRLF \o CRLF \o <<"a">>, FALSE),
      \* the header is never finished and the connection stays open
      Stream(RequestLine(S_GET, P_HELLO, S_HTTP11) \o CRLF, FALSE),
      \* a request whose lines, the blank line too, end with a bare LF; the
      \* connection stays open
      Stream(RequestLine(S_GET, P_HELLO, S_HTTP11) \o <<LF, LF>>, FALSE),
      \* bytes that are not UTF-8
      Stream(<<InvalidByte, LF>>, TRUE),
      \* the client connects and shuts down its sending side at once
      Stream(<<>>, TRUE) }

\* More connections than the pool has workers, also for a pool of MaxPool
\* workers: clients that are served, one whose request fails to parse, one that
\* never finishes its header and one that ends its lines with a bare LF.
MaxBacklog == 3
BacklogStreams ==
    { Stream(RequestLine(S_GET, P_HELLO, S_HTTP11) \o CRLF \o CRLF, FALSE),
      Stream(RequestLine(S_GET, P_HELLO, S_HTTP10) \o CRLF \o CRLF, FALSE),
      Stream(RequestLine(S_GET, P_HELLO, S_HTTP11) \o CRLF, FALSE),
      Stream(RequestLine(S_GET, P_HELLO, S_HTTP11) \o <<LF, LF>>, FALSE) }

\* What read_and_parse_request does on a stream: whether a read_line waits
\* forever, how the reading of the header lines ends, and the result returned
ReadOutcome(stream) ==
    [blocks |-> ReadBlocks(stream),
     st |-> ReadHeaderLines(stream, 1, <<>>).st,
     res |-> IF ReadBlocks(stream) THEN ErrReq("") ELSE read_and_parse_request(stream)]

\* The outcomes on the streams the clients send, computed once
ReadOutcomes == [s \in ClientStreams \cup BacklogStreams |-> ReadOutcome(s)]
outcome_of(stream) ==
    IF stream \in DOMAIN ReadOutcomes THEN ReadOutcomes[stream] ELSE ReadOutcome(stream)

NoSlot == [kind |-> "none", key |-> NoRequest]

\* A connection just accepted, its job not yet started.  after: the connections
\* whose jobs had already returned when this one was accepted.
NewConn(stream, after) ==
    [stream |-> stream, after |-> after, pc |-> "queued", worker |-> 0,
     request |-> ErrReq(""), slot |-> NoSlot, handed |-> NoRequest,
     response |-> ErrResp, writes |-> <<>>, written |-> <<>>,
     closed |-> FALSE, log |-> <<>>, failed |-> "no"]

\* Init: a server built by one of the programs, its accept loop about to start
InitServer ==
    /\ \E b \in Programs, n \in 1..MaxPool :
        /\ server = finalize(b, "free", n).server
        /\ workers = [w \in 1..n |-> 0]
    /\ listening = TRUE
    /\ queue = <<>>
    /\ conns = <<>>
    /\ nconn = 0
    /\ InitIdleFn /\ InitIdleBuilder

\* ThreadPool::execute: the job joins the end of the pool's queue; the caller
\* does not wait for it
execute(q, job) == Append(q, job)

\* An accept loop whose newest job is the next one a worker takes
Accept_lifo(stream, bound) ==
    /\ listening
    /\ nconn < bound
    /\ nconn' = nconn + 1
    /\ conns' = Append(conns,
            NewConn(stream, {c \in 1..nconn : conns[c].pc = "done"}))
    /\ queue' = <<nconn + 1>> \o queue
    /\ UNCHANGED <<server, listening, workers, fnVars, bldVars>>

\* An accept loop that hands the job of each stream to the pool twice
Accept_twice(stream, bound) ==
    /\ listening
    /\ nconn < bound
    /\ nconn' = nconn + 1
    /\ conns' = Append(conns,
            NewConn(stream, {c \in 1..nconn : conns[c].pc = "done"}))
    /\ queue' = execute(execute(queue, nconn + 1), nconn + 1)
    /\ UNCHANGED <<server, listening, workers, fnVars, bldVars>>

\* Server::run, one iteration of the accept loop: the next incoming stream is
\* moved into a job handed to pool.execute
\* (bound: the number of connections that are modelled)
Accept(stream, bound) ==
    /\ listening
    /\ nconn < bound
    /\ nconn' = nconn + 1
    /\ conns' = Append(conns,
            NewConn(stream, {c \in 1..nconn : conns[c].pc = "done"}))
    /\ queue' = execute(queue, nconn + 1)
    /\ UNCHANGED <<server, listening, workers, fnVars, bldVars>>

\* Server::run, `let mut stream = stream?`: accept fails and run returns the error
AcceptError ==
    /\ listening
    /\ listening' = FALSE
    /\ UNCHANGED <<server, queue, workers, conns, nconn, fnVars, bldVars>>

\* A pool worker's loop: an idle worker takes the oldest job of the queue
Dequeue(w) ==
    /\ workers[w] = 0
    /\ queue # <<>>
    /\ LET c == Head(queue) IN
        /\ workers' = [workers EXCEPT ![w] = c]
        /\ conns' = [conns EXCEPT ![c] = [@ EXCEPT !.pc = "read", !.worker = w,
                                             !.log = Append(@, <<"start", w>>)]]
    /\ queue' = Tail(queue)
    /\ UNCHANGED <<server, listening, nconn, fnVars, bldVars>>

\* handle_connection, `read_and_parse_request(stream).map_err(..)?`: enabled once
\* no read_line has to wait.  The body is not read and the content length is
\* dropped.
ReadParseStep(w) ==
    LET c == workers[w] IN
    /\ c # 0
    /\ conns[c].pc = "read"
    /\ ~outcome_of(conns[c].stream).blocks
    /\ \E r \in {outcome_of(conns[c].stream).res} :
        conns' = [conns EXCEPT ![c] =
            IF outcome_of(conns[c].stream).st = "err"
            THEN [@ EXCEPT !.pc = "boundary", !.failed = "read", !.request = r,
                           !.log = Append(@, <<"read", w>>)]
            ELSE IF ~r.ok
            THEN [@ EXCEPT !.pc = "boundary", !.failed = "parse", !.request = r,
                           !.log = @ \o <<<<"read", w>>, <<"parse", w>>>>]
            ELSE [@ EXCEPT !.pc = "route", !.request = r,
                           !.log = @ \o <<<<"read", w>>, <<"parse", w>>>>]]
    /\ UNCHANGED <<server, listening, queue, workers, nconn, fnVars, bldVars>>

\* handlers.valid_handlers.get(&req): the entry whose key equals the request
lookup(valid_handlers, req) ==
    IF contains_key(valid_handlers, req)
    THEN [kind |-> "valid", key |-> req]
    ELSE [kind |-> "error", key |-> NoRequest]

\* The handler a slot of Handlers holds
handler_of(srv, slot) ==
    IF slot.kind = "valid" THEN srv.valid_handlers[slot.key] ELSE srv.error_handler

\* handle_connection, the match on valid_handlers.get(&req) that calls
\* handler.handle(req) or handlers.handle_error(req), and `response?`
DispatchStep(w) ==
    LET c == workers[w] IN
    /\ c # 0
    /\ conns[c].pc = "route"
    /\ LET req == conns[c].request.req
           slot == lookup(server.valid_handlers, req)
           r == handle(handler_of(server, slot), req)
       IN  conns' = [conns EXCEPT ![c] =
            [@ EXCEPT !.pc = IF r.ok THEN "write" ELSE "boundary",
                      !.slot = slot,
                      !.handed = req,
                      !.response = r,
                      !.failed = IF r.ok THEN @ ELSE "handler",
                      !.log = @ \o <<<<"route", w>>, <<"handle", w>>>>]]
    /\ UNCHANGED <<server, listening, queue, workers, nconn, fnVars, bldVars>>

\* Write::write_all(data): all of data reaches the wire, or the call fails after
\* PartialWrite bytes of it did
WriteOutcomes(data) == {Len(data)} \cup {k \in {PartialWrite} : k < Len(data)}
write_all(conn, what, data, sent) ==
    [conn EXCEPT !.written = @ \o SubSeq(data, 1, sent),
                 !.writes = Append(@, [what |-> what, len |-> Len(data), sent |-> sent])]

\* A job that returns while its stream is kept alive: the connection stays open
job_returns_open(conn, w) ==
    [conn EXCEPT !.pc = "done", !.log = Append(@, <<"close", w>>)]

\* The job returns: the stream it owns is dropped, which closes the connection
job_returns(conn, w) ==
    [conn EXCEPT !.pc = "done", !.closed = TRUE, !.log = Append(@, <<"close", w>>)]

\* handle_connection, stream.write_all(&Vec::<u8>::from(response))?; on Ok the
\* job returns and the worker goes back to its loop
WriteStep(w) ==
    LET c == workers[w] IN
    /\ c # 0
    /\ conns[c].pc = "write"
    /\ LET data == to_bytes(conns[c].response.resp) IN
       \E sent \in WriteOutcomes(data) :
        LET wrote == [write_all(conns[c], "response", data, sent) EXCEPT
                        !.log = Append(@, <<"write", w>>)]
        IN IF sent = Len(data)
           THEN /\ conns' = [conns EXCEPT ![c] = job_returns(wrote, w)]
                /\ workers' = [workers EXCEPT ![w] = 0]
           ELSE /\ conns' = [conns EXCEPT ![c] =
                         [wrote EXCEPT !.pc = "boundary", !.failed = "write"]]
                /\ UNCHANGED workers
    /\ UNCHANGED <<server, listening, queue, nconn, fnVars, bldVars>>

\* An error boundary that logs the error and writes nothing
on_error_silent(conn, w, sent) == job_returns(conn, w)

\* The job's error boundary: error!(..); _ = stream.write_all("HTTP/1.1 500 ..."),
\* its result ignored; then the job returns
on_error(conn, w, sent) ==
    job_returns([write_all(conn, "500", RESPONSE_500, sent) EXCEPT
                    !.log = Append(@, <<"write500", w>>)], w)

\* An error branch that ends the worker's thread: the worker never takes a job
\* again
BoundaryStep_worker_ends(w) ==
    LET c == workers[w] IN
    /\ c # 0
    /\ conns[c].pc = "boundary"
    /\ \E sent \in WriteOutcomes(RESPONSE_500) :
        conns' = [conns EXCEPT ![c] = on_error(@, w, sent)]
    /\ UNCHANGED <<server, listening, queue, workers, nconn, fnVars, bldVars>>

\* Server::run, the `if let Err(e) = handle_connection(..)` branch of the job
BoundaryStep(w) ==
    LET c == workers[w] IN
    /\ c # 0
    /\ conns[c].pc = "boundary"
    /\ \E sent \in WriteOutcomes(RESPONSE_500) :
        conns' = [conns EXCEPT ![c] = on_error(@, w, sent)]
    /\ workers' = [workers EXCEPT ![w] = 0]
    /\ UNCHANGED <<server, listening, queue, nconn, fnVars, bldVars>>

Next ==
    \/ \E s \in ClientStreams : Accept(s, MaxConns)
    \/ AcceptError
    \/ \E w \in DOMAIN workers : Dequeue(w)
    \/ \E w \in DOMAIN workers : ReadParseStep(w)
    \/ \E w \in DOMAIN workers : DispatchStep(w)
    \/ \E w \in DOMAIN workers : WriteStep(w)
    \/ \E w \in DOMAIN workers : BoundaryStep(w)

Spec == InitServer /\ [][Next]_vars

\* The steps of worker w.  Each worker is a thread of its own, which the
\* scheduler runs whenever it can take a step.
WorkerNext(w) ==
    /\ w \in DOMAIN workers
    /\ (Dequeue(w) \/ ReadParseStep(w) \/ DispatchStep(w) \/ WriteStep(w) \/ BoundaryStep(w))

SpecFair == Spec /\ \A w \in 1..MaxPool : WF_vars(WorkerNext(w))

NextBacklog ==
    \/ \E s \in BacklogStreams : Accept(s, MaxBacklog)
    \/ AcceptError
    \/ \E w \in DOMAIN workers : Dequeue(w)
    \/ \E w \in DOMAIN workers : ReadParseStep(w)
    \/ \E w \in DOMAIN workers : DispatchStep(w)
    \/ \E w \in DOMAIN workers : WriteStep(w)
    \/ \E w \in DOMAIN workers : BoundaryStep(w)

SpecBacklog ==
    InitServer /\ [][NextBacklog]_vars /\ \A w \in 1..MaxPool : WF_vars(WorkerNext(w))

-----------------------------------------------------------------------------
(* The parser and the serializer called on their own *)

MaxTokens == 4
MaxBody == 2

S_FOO == <<"F", "O", "O">>
P_ROOT == <<"/">>
\* A path with a percent-encoded space
P_PCT == <<"/", "%", "2", "0">>
Tokens == {S_GET, S_POST, S_FOO, P_ROOT, P_X, P_PCT, S_HTTP11, S_HTTP10}
TokenSeqs == UNION {[1..n -> Tokens] : n \in 0..MaxTokens}

\* Request lines: tokens joined by one space, or by tabs and spaces with
\* whitespace around the line
LineInputs ==
    {[kind |-> "line", tokens |-> ts, line |-> Join(ts, <<SP>>)] : ts \in TokenSeqs}
    \cup {[kind |-> "line", tokens |-> ts,
           line |-> <<SP>> \o Join(ts, <<TAB, SP>>) \o CRLF] : ts \in TokenSeqs}

BodyChars == {"a", "b"}
Bodies == UNION {[1..n -> BodyChars] : n \in 0..MaxBody}

FirstLines ==
    {<<S_GET, P_X, S_HTTP11>>, <<S_POST, P_X, S_HTTP11>>, <<S_POST, P_ROOT, S_HTTP11>>,
     <<S_GET, P_X, S_HTTP10>>, <<S_FOO, P_X, S_HTTP11>>, <<>>}

S_HOST == <<"H", "o", "s", "t", ":", " ", "h">>
S_content_length == <<"c", "o", "n", "t", "e", "n", "t", "-", "l", "e", "n", "g", "t", "h", ":">>
\* Header lines, without their line ending
HeaderLines ==
    {S_CONTENT_LENGTH \o <<SP>> \o ToDec(k) : k \in 0..MaxBody}
    \cup {S_CONTENT_LENGTH \o <<"1">>,
          S_CONTENT_LENGTH \o <<SP, "+", "1">>,
          S_CONTENT_LENGTH \o <<SP, "-", "1">>,
          S_CONTENT_LENGTH \o <<SP, "x">>,
          S_CONTENT_LENGTH,
          S_CONTENT_LENGTH \o <<SP, "1", ":", "2">>,
          S_content_length \o <<SP, "1">>,
          <<SP>> \o S_CONTENT_LENGTH \o <<SP, "1">>,
          S_HOST}
HeaderSeqs == UNION {[1..n -> HeaderLines] : n \in 0..2}

\* Arguments of parse_request: a request line and header lines, each with its
\* line ending, as read_line returns them; and no line at all
LinesInputs ==
    {[kind |-> "lines", first |-> fl, headers |-> hs,
      lines |-> <<Join(fl, <<SP>>) \o CRLF>> \o [i \in 1..Len(hs) |-> hs[i] \o CRLF]] :
        fl \in FirstLines, hs \in HeaderSeqs}
    \cup {[kind |-> "lines", first |-> <<>>, headers |-> <<>>, lines |-> <<>>]}

LineEndings == {CRLF, <<LF>>}
NoHeader == MaxBody + 1

\* What a client sends: the request line, an optional Content-Length: cl header
\* (cl = NoHeader: none), the blank line, the body; every line ended by nl.  With
\* eof the client then shuts down its sending side.
StreamOf(fl, cl, body, nl, eof) ==
    Stream(Join(fl, <<SP>>) \o nl
               \o (IF cl = NoHeader THEN <<>>
                   ELSE S_CONTENT_LENGTH \o <<SP>> \o ToDec(cl) \o nl)
               \o nl \o body, eof)

StreamInputs ==
    {[kind |-> "stream", first |-> fl, cl |-> cl, body |-> body, nl |-> nl,
      stream |-> StreamOf(fl, cl, body, nl, eof)] :
        fl \in FirstLines \ {<<>>}, cl \in 0..NoHeader, body \in Bodies,
        nl \in LineEndings, eof \in BOOLEAN}
    \cup {[kind |-> "stream", first |-> <<>>, cl |-> NoHeader, body |-> <<>>, nl |-> CRLF,
           stream |-> st] :
            st \in {Stream(<<>>, TRUE), Stream(<<>>, FALSE), Stream(CRLF, FALSE),
                    Stream(Join(<<S_GET, P_X, S_HTTP11>>, <<SP>>), TRUE),
                    Stream(Join(<<S_GET, P_X, S_HTTP11>>, <<SP>>), FALSE),
                    Stream(<<InvalidByte, LF>>, FALSE)}}

SerBodyChars == {"a", CR, LF}
SerBodies ==
    UNION {[1..n -> SerBodyChars] : n \in 0..MaxBody} \cup {S_HELLO_BODY, S_FOO_BODY}
ResponseInputs ==
    {[kind |-> "response", resp |-> ResponseOk(b)] : b \in SerBodies}
    \cup {[kind |-> "response", resp |-> ResponseNotFound(b)] : b \in SerBodies}

NotCalled == [returned |-> FALSE]

InitFn ==
    /\ input \in LineInputs \cup LinesInputs \cup StreamInputs \cup ResponseInputs
    /\ output = NotCalled
    /\ InitIdleBuilder /\ InitIdleServer

\* Request::parse(request_line)
CallParse ==
    /\ input.kind = "line" /\ ~output.returned
    /\ output' = [returned |-> TRUE, res |-> parse(input.line)]
    /\ UNCHANGED <<input, bldVars, srvVars>>

\* parse_request(lines)
CallParseRequest ==
    /\ input.kind = "lines" /\ ~output.returned
    /\ output' = [returned |-> TRUE, res |-> parse_request(input.lines)]
    /\ UNCHANGED <<input, bldVars, srvVars>>

\* read_and_parse_request(stream): it returns only if no read_line waits forever.
\* lines: the header lines its loop accumulated.
CallReadAndParse ==
    /\ input.kind = "stream" /\ ~output.returned
    /\ ~ReadBlocks(input.stream)
    /\ output' = [returned |-> TRUE, res |-> read_and_parse_request(input.stream),
                  lines |-> ReadHeaderLines(input.stream, 1, <<>>).lines]
    /\ UNCHANGED <<input, bldVars, srvVars>>

\* Vec::<u8>::from(response)
CallToBytes ==
    /\ input.kind = "response" /\ ~output.returned
    /\ output' = [returned |-> TRUE, bytes |-> to_bytes(input.resp)]
    /\ UNCHANGED <<input, bldVars, srvVars>>

NextFn == CallParse \/ CallParseRequest \/ CallReadAndParse \/ CallToBytes

SpecFn == InitFn /\ [][NextFn]_vars

\* A call that can return does return
SpecFnFair == SpecFn /\ WF_vars(NextFn)

-----------------------------------------------------------------------------
(* Properties *)

Accepted == 1..nconn
RECURSIVE Count(_, _)
\* How many entries of a job's log are the step `step`
Count(log, step) ==
    IF log = <<>> THEN 0
    ELSE (IF Head(log)[1] = step THEN 1 ELSE 0) + Count(Tail(log), step)
\* The place of a step in a job's log, 0 when it is not there
Place(log, step) ==
    IF \E i \in 1..Len(log) : log[i][1] = step
    THEN CHOOSE i \in 1..Len(log) : log[i][1] = step
    ELSE 0
Dispatched(c) == conns[c].slot.kind # "none"
Executing(c) == conns[c].pc \notin {"queued", "done"}
InQueue(c) == Cardinality({i \in 1..Len(queue) : queue[i] = c})

\* C1: every connection whose request parsed invokes exactly one handler: the one
\* registered under the request's (method, path) when the table has such a key,
\* and the error handler otherwise.
C1_ExactKeyOrFallback ==
    \A c \in Accepted :
        Dispatched(c) =>
            LET req == conns[c].request.req
                same == {k \in DOMAIN server.valid_handlers :
                            k.tag = req.tag /\ k.path = req.path}
            IN  /\ Count(conns[c].log, "handle") = 1
                /\ same # {} => conns[c].slot.kind = "valid" /\ conns[c].slot.key \in same
                /\ same = {} => conns[c].slot.kind = "error"

\* C2: a job whose read, parse or handler failed writes the fixed 500 response,
\* which has no body, and nothing else, to its own connection; no job that did
\* not fail writes it; the worker is free again and the pool keeps its size.
C2_ErrorBoundary ==
    /\ DOMAIN workers = 1..server.pool_size
    /\ \A c \in Accepted :
        /\ conns[c].pc = "done" /\ conns[c].failed \in {"read", "parse", "handler"} =>
            /\ Len(conns[c].writes) = 1
            /\ conns[c].writes[1].what = "500"
            /\ conns[c].writes[1].len = Len(RESPONSE_500)
            /\ conns[c].written = SubSeq(RESPONSE_500, 1, conns[c].writes[1].sent)
            /\ LET rl == ReadHeaderLines(Stream(RESPONSE_500, TRUE), 1, <<>>) IN
                /\ Len(rl.lines) = 1
                /\ split_whitespace(rl.lines[1])[2] = <<"5", "0", "0">>
                /\ rl.pos = Len(RESPONSE_500) + 1
        /\ conns[c].failed = "no" =>
            \A i \in 1..Len(conns[c].writes) : conns[c].writes[i].what # "500"
        /\ conns[c].pc = "done" => \A w \in DOMAIN workers : workers[w] # c
        /\ conns[c].pc \in {"queued", "done"} \/ workers[conns[c].worker] = c

\* C2 witness: a job failed on a parse error and wrote the whole 500 response, and
\* a connection accepted after that was served its handler's response.
C2_Witness ==
    \E c, d \in Accepted :
        /\ conns[c].pc = "done" /\ conns[c].failed = "parse"
        /\ conns[c].written = RESPONSE_500
        /\ c \in conns[d].after
        /\ conns[d].pc = "done" /\ conns[d].failed = "no"
        /\ conns[d].written = to_bytes(ResponseOk(S_HELLO_BODY))

AtMostN == Cardinality({c \in Accepted : Executing(c)}) <= server.pool_size
AtMostOnce ==
    \A c \in Accepted :
        /\ Count(conns[c].log, "start") = (IF conns[c].pc = "queued" THEN 0 ELSE 1)
        /\ InQueue(c) = (IF conns[c].pc = "queued" THEN 1 ELSE 0)
        /\ Cardinality({w \in DOMAIN workers : workers[w] = c})
               = (IF Executing(c) THEN 1 ELSE 0)
\* The streams on which read_and_parse_request never returns: the connection
\* stays open and no line that the loop takes as the end of the header arrives
BlockingStreams == {s \in DOMAIN ReadOutcomes : ReadOutcomes[s].blocks}
\* The job of connection c waits in read_line for bytes its client never sends
WaitsForever(c) == conns[c].pc = "read" /\ conns[c].stream \in BlockingStreams
\* The job worker w runs waits for bytes its client never sends
Stalled(w) == workers[w] # 0 /\ WaitsForever(workers[w])
AllWorkersStalled == \A w \in DOMAIN workers : Stalled(w)

\* C3, as stated: at most pool_size jobs execute at a time, no job is executed
\* twice, and every job handed to the pool is eventually taken by a worker.
C3_AllJobsExecuted ==
    /\ [](AtMostN /\ AtMostOnce)
    /\ \A c \in 1..MaxBacklog : (nconn >= c) ~> (nconn >= c /\ conns[c].pc # "queued")

\* C3, amended: at most pool_size jobs execute at a time, no job is executed
\* twice, and every accepted job eventually returns unless its own job, or the
\* job of every worker of the pool, waits forever in read_line: the connection
\* stays open and no line that the code takes as the end of the header ("\r\n"
\* or "\r") ever arrives.  That is the case of a client that never finishes its
\* header and of one that ends its lines, the blank one too, with a bare LF.
C3_JobsExecutedUnlessStalled ==
    /\ [](AtMostN /\ AtMostOnce)
    /\ \A c \in 1..MaxBacklog :
        (nconn >= c) ~>
            (nconn >= c /\ (\/ conns[c].pc = "done"
                            \/ AllWorkersStalled
                            \/ WaitsForever(c)))

\* C3 witness: a pool of two workers was handed three connections; one worker
\* waits forever for a client that sent its request with bare-LF line ends, and
\* the other worker ran the jobs of both other connections, one after the other.
C3_Witness ==
    /\ server.pool_size = 2
    /\ nconn = 3
    /\ \E a, b, c \in Accepted :
        /\ a # b
        /\ conns[c].stream = Stream(RequestLine(S_GET, P_HELLO, S_HTTP11) \o <<LF, LF>>, FALSE)
        /\ WaitsForever(c) /\ workers[conns[c].worker] = c
        /\ conns[a].pc = "done" /\ conns[b].pc = "done"
        /\ conns[a].worker = conns[b].worker
        /\ conns[a].worker # conns[c].worker
        /\ conns[a].written = to_bytes(ResponseOk(S_HELLO_BODY))

\* C4: a POST request is routed to the handler registered under a POST key with
\* its path, whatever body the key was registered with.
C4_PostRoutesByPath ==
    \A c \in Accepted :
        Dispatched(c) /\ conns[c].request.req.tag = "POST" =>
            \A k \in DOMAIN server.valid_handlers :
                k.tag = "POST" /\ k.path = conns[c].request.req.path =>
                    /\ conns[c].slot.kind = "valid"
                    /\ handler_of(server, conns[c].slot) = server.valid_handlers[k]

\* C5: for "POST <path> HTTP/1.1", a Content-Length: k header, the blank line and
\* exactly k body bytes, read_and_parse_request returns POST(path, body).
C5_PostBodyAttached ==
    /\ output.returned
    /\ input.kind = "stream"
    /\ Len(input.first) = 3
    /\ input.first[1] = S_POST /\ input.first[3] = S_HTTP11
    /\ input.cl = Len(input.body)
    => output.res = OkReq(POST(input.first[2], input.body))

\* C6: Request::parse fails with the error of the first missing or unsupported
\* part: no token, one token, two tokens, a third token other than HTTP/1.1, a
\* method other than GET and POST; and it produces no Request then.
C6_ParseErrorKinds ==
    output.returned /\ input.kind = "line" =>
        LET t == input.tokens
            r == output.res
            Fails(e) == ~r.ok /\ r.err = e /\ r.req = NoRequest
            FailsFmt(e, arg) == Fails(e) /\ r.arg = arg
        IN  /\ Len(t) = 0 => Fails("No method found")
            /\ Len(t) = 1 => Fails("No URI found")
            /\ Len(t) = 2 => Fails("No protocol found")
            /\ Len(t) = 3 /\ t[3] # S_HTTP11 => Fails("Server can only work with HTTP/1.1")
            /\ Len(t) = 3 /\ t[3] = S_HTTP11 /\ t[1] \notin {S_GET, S_POST}
                   => FailsFmt("Invalid method ", t[1])

\* C6 witness: a three-token line with an unsupported method and an unsupported
\* protocol was parsed, and failed on the protocol
C6_Witness ==
    /\ output.returned /\ input.kind = "line"
    /\ input.tokens = <<S_FOO, P_ROOT, S_HTTP10>>
    /\ input.line # Join(input.tokens, <<SP>>)
    /\ output.res.err = "Server can only work with HTTP/1.1"

\* C7: finalize on a builder without an error handler fails, whatever the
\* address, the pool size and the handlers registered, and it binds no socket,
\* starts no worker and returns no Server.
C7_FinalizeNeedsErrorHandler ==
    last.op = "finalize" /\ ~last.had_error_handler =>
        /\ ~last.ok
        /\ last.err = "No handler for 404 errors"
        /\ effects.binds = 0 /\ ~effects.listener_open /\ effects.workers_started = 0
        /\ ~server.built

\* C7 witness: finalize was called with a free address and a valid pool size on a
\* builder that holds handlers and no error handler
C7_Witness ==
    /\ last.op = "finalize" /\ ~last.had_error_handler
    /\ last.nhandlers >= 2 /\ last.addr = "free" /\ last.pool_size >= 1
    /\ ~last.ok

\* C8: register_error_handler succeeds exactly when the builder has no error
\* handler; a call on a builder that has one fails, and an error handler once
\* registered is never replaced by another.
C8_OneErrorHandler ==
    /\ [](last.op = "register_error_handler" =>
            /\ last.ok <=> ~last.had_error_handler
            /\ last.ok => builder.error_handler # "None"
            /\ ~last.ok => ~builder.owned /\ ~server.built)
    /\ [][builder.error_handler # "None" /\ builder'.owned
            => builder'.error_handler = builder.error_handler]_vars

\* C8 witness: a second register_error_handler call, made after handlers were
\* registered, failed
C8_Witness ==
    /\ last.op = "register_error_handler" /\ last.had_error_handler
    /\ last.nhandlers >= 1
    /\ ~last.ok

StepOrder == <<"start", "read", "parse", "route", "handle", "write", "write500", "close">>
\* The steps of a log occur at most once each, in the order of StepOrder
InOrder(log) ==
    /\ \A i \in 1..Len(StepOrder) : Count(log, StepOrder[i]) <= 1
    /\ \A i, j \in 1..Len(StepOrder) :
        i < j /\ Place(log, StepOrder[i]) > 0 /\ Place(log, StepOrder[j]) > 0
            => Place(log, StepOrder[i]) < Place(log, StepOrder[j])
    /\ \A i \in 1..Len(log) : \E k \in 1..Len(StepOrder) : log[i][1] = StepOrder[k]

\* C9: a connection's job reads, parses, routes, invokes the handler and writes
\* at most once each and in that order, every step on the one worker that took the
\* job; the connection is closed once its response or the 500 response was
\* written, and nothing is written to a closed connection.
C9_OnePassThenClosed ==
    /\ [](\A c \in Accepted :
            /\ InOrder(conns[c].log)
            /\ \A i \in 1..Len(conns[c].log) : conns[c].log[i][2] = conns[c].worker
            /\ Cardinality({w \in DOMAIN workers : workers[w] = c}) <= 1
            /\ Place(conns[c].log, "route") > 0 => Place(conns[c].log, "parse") > 0
            /\ Place(conns[c].log, "write") > 0 => Place(conns[c].log, "handle") > 0
            /\ conns[c].closed <=> conns[c].pc = "done"
            /\ conns[c].closed <=> Place(conns[c].log, "close") = Len(conns[c].log)
                                     /\ conns[c].log # <<>>
            /\ conns[c].closed => conns[c].writes # <<>>
            /\ Len(conns[c].writes)
                   = Count(conns[c].log, "write") + Count(conns[c].log, "write500")
            /\ conns[c].writes # <<>> /\ conns[c].writes[Len(conns[c].writes)].sent
                   = conns[c].writes[Len(conns[c].writes)].len => conns[c].closed)
    /\ [][\A c \in Accepted :
            conns[c].closed =>
                /\ conns'[c].closed
                /\ conns'[c].written = conns[c].written
                /\ conns'[c].writes = conns[c].writes]_vars

\* C9 witness: one connection closed after its handler's response, another closed
\* after the 500 response
C9_Witness ==
    \E c, d \in Accepted :
        /\ conns[c].closed /\ conns[c].failed = "no"
        /\ conns[c].written = to_bytes(conns[c].response.resp)
        /\ conns[d].closed /\ conns[d].failed = "handler"
        /\ conns[d].written = RESPONSE_500

\* C10: the bytes of Response::Ok(b) read back as a 200-class status line, the
\* header "Content-Type: text/html", the header "Content-Length: N" with N the
\* length of b, a blank line, and then exactly b.
C10_OkRoundTrip ==
    output.returned /\ input.kind = "response" /\ input.resp.tag = "Ok" =>
        LET b == input.resp.body
            rl == ReadHeaderLines(Stream(output.bytes, TRUE), 1, <<>>)
        IN  /\ rl.st = "ok"
            /\ Len(rl.lines) = 3
            /\ Head(split_whitespace(rl.lines[1])[2]) = "2"
            /\ rl.lines[2] = HTML_TYPE \o CRLF
            /\ rl.lines[3] = F_CONTENT_LENGTH \o ToDec(Len(b)) \o CRLF
            /\ SubSeq(output.bytes, rl.pos, Len(output.bytes)) = b

\* C11: the bytes of Response::NotFound(s) are the same for every payload s: a
\* 404 status line, two header lines, the second being Content-Length with the
\* length of the built-in page, a blank line, and the built-in page.
C11_NotFoundIgnoresPayload ==
    output.returned /\ input.kind = "response" /\ input.resp.tag = "NotFound" =>
        LET rl == ReadHeaderLines(Stream(output.bytes, TRUE), 1, <<>>) IN
        /\ \A s2 \in SerBodies : output.bytes = to_bytes(ResponseNotFound(s2))
        /\ rl.st = "ok"
        /\ Len(rl.lines) = 3
        /\ split_whitespace(rl.lines[1])[2] = <<"4", "0", "4">>
        /\ rl.lines[3] = F_CONTENT_LENGTH \o ToDec(Len(BODY_404)) \o CRLF
        /\ SubSeq(output.bytes, rl.pos, Len(output.bytes)) = BODY_404

\* C11 witness: a NotFound with a payload that is not the built-in page was
\* serialized
C11_Witness ==
    /\ output.returned /\ input.kind = "response" /\ input.resp.tag = "NotFound"
    /\ input.resp.body = S_FOO_BODY
    /\ Len(output.bytes) > Len(BODY_404)

\* C12: Request::parse of a line whose three tokens are GET, a path and HTTP/1.1
\* returns GET(path) with the path token as written and no body, and
\* parse_request of lines that start with such a line returns it with the
\* content length 0, whatever the header lines are.
C12_GetParsesLiterally ==
    /\ output.returned /\ input.kind = "line" /\ Len(input.tokens) = 3
         /\ input.tokens[1] = S_GET /\ input.tokens[3] = S_HTTP11
       => /\ output.res = Ok(GET(input.tokens[2]), 0)
          /\ output.res.req.body = <<>>
    /\ output.returned /\ input.kind = "lines" /\ Len(input.first) = 3
         /\ input.first[1] = S_GET /\ input.first[3] = S_HTTP11
       => output.res = Ok(GET(input.first[2]), 0)

\* C12 witness: a GET line with a percent-encoded path, written with tabs and
\* surrounding whitespace, was parsed into a request
C12_Witness ==
    /\ output.returned /\ input.kind = "line"
    /\ input.tokens = <<S_GET, P_PCT, S_HTTP11>>
    /\ input.line # Join(input.tokens, <<SP>>)
    /\ output.res.ok

\* Worker w has run a job that failed, to its end
RanFailing(w) ==
    \E c \in Accepted :
        conns[c].worker = w /\ conns[c].pc = "done" /\ conns[c].failed # "no"

\* C13: the pool keeps its size, the worker that ran a failed job is not held by
\* it, and whenever that worker is idle while jobs wait, it takes a job or other
\* workers empty the queue.
C13_WorkerSurvivesFailure ==
    /\ [](/\ DOMAIN workers = 1..server.pool_size
          /\ \A c \in Accepted :
                conns[c].pc = "done" /\ conns[c].failed # "no" =>
                    /\ conns[c].worker \in DOMAIN workers
                    /\ workers[conns[c].worker] # c)
    /\ \A w \in 1..MaxPool :
        (w \in DOMAIN workers /\ workers[w] = 0 /\ RanFailing(w) /\ queue # <<>>)
            ~> (w \in DOMAIN workers /\ (workers[w] # 0 \/ queue = <<>>))

\* C13 witness: the worker that ran a job that failed in parse or in its handler
\* has since run a job accepted after that failure, which was served
C13_Witness ==
    \E c, d \in Accepted :
        /\ conns[c].pc = "done" /\ conns[c].failed \in {"parse", "handler"}
        /\ c \in conns[d].after
        /\ conns[d].worker = conns[c].worker
        /\ conns[d].pc = "done" /\ conns[d].failed = "no"
        /\ Cardinality(DOMAIN workers) = server.pool_size

\* C14: finalize with a pool size below 1 fails and starts no worker; finalize
\* returns a Server exactly when it succeeds, and then the pool has the requested
\* size, which is at least 1, with that many workers started, the listener open
\* and the error handler in place; when it fails no worker runs and no listener
\* stays open.
C14_PoolSizeAtLeastOne ==
    last.op = "finalize" =>
        /\ last.pool_size < 1 =>
            ~last.ok /\ effects.workers_started = 0 /\ ~server.built
        /\ last.ok <=> server.built
        /\ server.built =>
            /\ server.pool_size = last.pool_size
            /\ server.pool_size >= 1
            /\ effects.workers_started = server.pool_size
            /\ effects.listener_open
            /\ server.error_handler # "None"
        /\ ~last.ok =>
            /\ effects.workers_started = 0
            /\ ~effects.listener_open
            /\ server = NoServer

\* C14 witness: finalize with pool size 0 on a builder with an error handler and
\* a free address failed on the pool
C14_Witness ==
    /\ last.op = "finalize" /\ last.had_error_handler
    /\ last.addr = "free" /\ last.pool_size = 0
    /\ ~last.ok /\ last.err = "InvalidPoolSize"
    /\ effects.binds = 1

\* C15: connections are numbered in the order the accept loop hands them to
\* execute.  No job is started while a job handed over before it still waits;
\* the accept loop can take the next connection whatever the workers are doing,
\* and accepting only appends the new job to the queue.
C15_FifoDequeue ==
    /\ [](/\ \A a, b \in Accepted :
                a < b /\ conns[b].pc # "queued" => conns[a].pc # "queued"
          /\ \A i, j \in 1..Len(queue) : i < j => queue[i] < queue[j]
          /\ listening /\ nconn < MaxConns => ENABLED (\E s \in ClientStreams : Accept(s, MaxConns)))
    /\ [][nconn' # nconn =>
            /\ queue' = Append(queue, nconn')
            /\ workers' = workers
            /\ \A c \in Accepted : conns'[c] = conns[c]]_vars

\* C15 witness: the second connection was started after the first and has
\* finished while the first is still being handled
C15_Witness ==
    /\ nconn >= 2
    /\ conns[1].pc \notin {"queued", "done"}
    /\ conns[2].pc = "done"
    /\ conns[1].worker # conns[2].worker

\* The header lines a client sent before its blank line, each with its line
\* ending
HeaderLinesSent(in) ==
    <<Join(in.first, <<SP>>) \o in.nl>>
        \o (IF in.cl = NoHeader THEN <<>>
            ELSE <<S_CONTENT_LENGTH \o <<SP>> \o ToDec(in.cl) \o in.nl>>)

\* C16: for a request whose lines end in CRLF or in LF and whose headers end with
\* a blank line, read_and_parse_request returns, whether or not the client keeps
\* the connection open, and the lines it accumulated are the lines before the
\* blank line, in order.
C16_HeadersEndAtBlankLine ==
    /\ [](output.returned /\ input.kind = "stream" /\ input.first # <<>>
            => output.lines = HeaderLinesSent(input))
    /\ (input.kind = "stream" /\ input.first # <<>>) ~> output.returned

\* The same for requests whose lines end in CRLF
C16_CrlfHeadersEndAtBlankLine ==
    /\ [](output.returned /\ input.kind = "stream" /\ input.first # <<>>
          /\ input.nl = CRLF
            => output.lines = HeaderLinesSent(input))
    /\ (input.kind = "stream" /\ input.first # <<>> /\ input.nl = CRLF)
            ~> output.returned

\* C17: Request::parse of a line with more than three tokens fails with the
\* error for extra values, whatever the tokens are, and produces no Request.
C17_ExtraTokensMalformed ==
    output.returned /\ input.kind = "line" /\ Len(input.tokens) > 3 =>
        /\ ~output.res.ok
        /\ output.res.err = "Invalid request line: extra values after parts"
        /\ output.res.req = NoRequest

\* The same for lines whose third token is HTTP/1.1
C17_ExtraTokensAfterHttp11 ==
    output.returned /\ input.kind = "line" /\ Len(input.tokens) > 3
    /\ input.tokens[3] = S_HTTP11 =>
        /\ ~output.res.ok
        /\ output.res.err = "Invalid request line: extra values after parts"
        /\ output.res.req = NoRequest

\* The value of a header line that starts with "Content-Length:": the number
\* written after the prefix, 0 when what is written there is not a number
ValueOf(header) ==
    LET v == parse_usize(trim(SubSeq(header, Len(S_CONTENT_LENGTH) + 1, Len(header))))
    IN  IF v.ok THEN v.val ELSE 0

\* The content length a sequence of header lines declares: the value of the
\* first line with the prefix, 0 when there is none
Declared(headers) ==
    LET with == {i \in 1..Len(headers) : starts_with(headers[i], S_CONTENT_LENGTH)}
    IN  IF with = {} THEN 0
        ELSE ValueOf(headers[CHOOSE i \in with : \A j \in with : i <= j])

\* C18: the content length parse_request returns is, for a POST, the value of
\* the header line that starts with "Content-Length:", 0 when there is no such
\* line or its value is not a non-negative integer; for a GET it is 0.
C18_ContentLength ==
    output.returned /\ input.kind = "lines" /\ output.res.ok =>
        /\ output.res.req.tag = "GET" => output.res.n = 0
        /\ output.res.req.tag = "POST" => output.res.n = Declared(input.headers)

\* The same for header lines with at most one colon
C18_ContentLengthOneColon ==
    output.returned /\ input.kind = "lines" /\ output.res.ok
    /\ (\A i \in 1..Len(input.headers) :
            Cardinality({k \in 1..Len(input.headers[i]) : input.headers[i][k] = ":"}) <= 1)
    =>  /\ output.res.req.tag = "GET" => output.res.n = 0
        /\ output.res.req.tag = "POST" => output.res.n = Declared(input.headers)

\* The job of connection c has read its request, or has failed to
HasRead(c) == conns[c].pc \notin {"queued", "read"}

\* No handler was looked up or invoked for connection c, and all it was sent is
\* the 500 response
NoHandlerInvoked(c) ==
    /\ conns[c].request.req = NoRequest
    /\ conns[c].slot = NoSlot
    /\ Count(conns[c].log, "handle") = 0
    /\ conns[c].pc = "done" =>
        /\ Len(conns[c].writes) = 1
        /\ conns[c].writes[1].what = "500"

\* C19, as stated: a connection that sends no line at all fails with the error of
\* an empty request line, and no request is produced and no handler invoked.
C19_NoLinesMissingMethod ==
    \A c \in Accepted :
        HasRead(c) /\ conns[c].stream = Stream(<<>>, TRUE) =>
            /\ ~conns[c].request.ok
            /\ conns[c].request.err = parse(<<>>).err
            /\ NoHandlerInvoked(c)

\* C19, amended: a connection that sends no line at all fails with the error "No
\* request line found", which is not the error of an empty request line, and no
\* request is produced and no handler invoked.
C19_NoLinesNoRequestLine ==
    \A c \in Accepted :
        HasRead(c) /\ conns[c].stream = Stream(<<>>, TRUE) =>
            /\ ~conns[c].request.ok
            /\ conns[c].request.err = "No request line found"
            /\ conns[c].request.err # parse(<<>>).err
            /\ conns[c].failed = "parse"
            /\ NoHandlerInvoked(c)

\* C19 witness: the job of a connection that sent nothing and was shut down has
\* returned
C19_Witness ==
    \E c \in Accepted :
        /\ conns[c].stream = Stream(<<>>, TRUE)
        /\ conns[c].pc = "done"
        /\ conns[c].written = RESPONSE_500


\* The bytes on connection c's wire are a prefix of data
IsPrefixOf(c, data) ==
    /\ Len(conns[c].written) <= Len(data)
    /\ conns[c].written = SubSeq(data, 1, Len(conns[c].written))

\* Some byte of a handler response reached connection c before write number i
ResponseBytesBefore(c, i) ==
    \E j \in 1..(i - 1) :
        conns[c].writes[j].what = "response" /\ conns[c].writes[j].sent > 0

\* C20: a connection receives at most one response: its bytes are those of one
\* serialized handler response or those of the fixed 500 response, never both,
\* and the 500 response is never written after a byte of a handler response,
\* also when the write of the handler response fails partway.
C20_AtMostOneResponse ==
    \A c \in Accepted :
        /\ Len(conns[c].writes) <= 1
        /\ \/ conns[c].response.ok /\ IsPrefixOf(c, to_bytes(conns[c].response.resp))
           \/ IsPrefixOf(c, RESPONSE_500)
        /\ \A i \in 1..Len(conns[c].writes) :
            conns[c].writes[i].what = "500" => ~ResponseBytesBefore(c, i)

\* C20, for the connections whose handler response was written whole or not
\* written at all: the bytes are those of one response only.
C20_OneResponseUnlessWriteFails ==
    \A c \in Accepted :
        conns[c].failed # "write" =>
            /\ Len(conns[c].writes) <= 1
            /\ \/ conns[c].response.ok /\ IsPrefixOf(c, to_bytes(conns[c].response.resp))
               \/ IsPrefixOf(c, RESPONSE_500)
            /\ \A i \in 1..Len(conns[c].writes) :
                conns[c].writes[i].what = "500" => ~ResponseBytesBefore(c, i)

\* C20: a connection whose handler response failed after PartialWrite bytes got
\* the whole 500 response after them
C20_PartialThen500 ==
    \E c \in Accepted :
        /\ conns[c].pc = "done" /\ conns[c].failed = "write"
        /\ Len(conns[c].writes) = 2
        /\ conns[c].writes[1].what = "response"
        /\ conns[c].writes[1].sent = PartialWrite
        /\ conns[c].writes[2].what = "500"
        /\ conns[c].written =
            SubSeq(to_bytes(conns[c].response.resp), 1, PartialWrite) \o RESPONSE_500

=============================================================================
